---- MODULE Spec2Model ----
(***************************************************************************)
(* A model of the ANT conversational-agent shell: the conversation store   *)
(* and completion client (src/NLP/LLM.py, LLMInterface), the agent         *)
(* registry (src/NLP/LLM.py, AgentManager) and the facade (src/ANT.py,     *)
(* class ANT).  Every public method is one action.  The remote completion  *)
(* service, the ASR model and the TTS pipeline are external collaborators: *)
(* each call to one of them either returns a value drawn from a small set  *)
(* or raises.                                                              *)
(***************************************************************************)
EXTENDS Integers, Sequences, FiniteSets, TLC

(***************************************************************************)
(* Bounds of the model.                                                    *)
(***************************************************************************)
\* The longest conversation history a completion call may leave behind.
MaxHist == 5
\* add_message is called directly only while the history is shorter than this.
MaxDirect == 3

(***************************************************************************)
(* Texts.  Python strings are TLA+ strings; f-strings are concatenations.  *)
(***************************************************************************)
\* LLM.py:20, the prompt a new LLMInterface is configured with.
DefaultSystemPrompt == "You are a helpful assistant."
\* LLM.py:72, the prompt of the one registered agent (Chinese text in the
\* source, written here in ASCII).
DefaultAgentPrompt == "zh: you are a helpful assistant. Answer in Chinese."
\* A prompt no agent carries, for direct set_system_prompt calls.
CustomPrompt == "You are a pirate."
Prompts == {DefaultSystemPrompt, DefaultAgentPrompt, CustomPrompt}

\* The agent names callers pass: the registered one and the two main() uses.
AgentNames == {"default", "friend", "professional"}
Roles == {"system", "user", "assistant"}
\* What callers type, and what the ASR model transcribes.
UserInputs == {"hi", "x"}
\* What the remote completion service replies.
Replies == {"OK"}
\* str(e) of the exceptions a collaborator raises.
Errors == {"timeout"}
\* Contents passed to add_message directly.
Contents == {"hi"}
AudioPaths == {"in.wav"}

\* Python's None.
None == "None"
\* LLM.py:56
GenerateErrorPrefix == "Error generating response: "
\* ANT.py:90
AudioErrorPrefix == "Error processing audio: "
\* ANT.py:75
AsrUnavailable == "ASR module not available"

VARIABLES
    conversation_history,  \* LLMInterface.conversation_history
    system_prompt,         \* LLMInterface.system_prompt
    agents,                \* AgentManager.agents, in insertion order
    asr_available,         \* ANT.asr_available
    tts_available,         \* ANT.tts_available
    op,                    \* the last call: [name, arg]
    ret,                   \* what the last call returned
    sent,                  \* messages= of the remote call the last call made
    calls,                 \* collaborator -> "ok" | "raised", for the last call
    before,                \* the fields of the session before the last call
    prompted,              \* set_system_prompt has been called
    active,                \* the agent most recently activated, or None
    streak                 \* the successful turns since the last reset

vars == <<conversation_history, system_prompt, agents, asr_available,
          tts_available, op, ret, sent, calls, before, prompted, active,
          streak>>

(***************************************************************************)
(* LLMInterface.  Each method is an operator from the object's fields,     *)
(* llm = [conversation_history, system_prompt], to the fields after it.    *)
(***************************************************************************)
Message(role, content) == [role |-> role, content |-> content]

SystemMessage(prompt) == Message("system", prompt)

llm == [conversation_history |-> conversation_history,
        system_prompt |-> system_prompt]

\* LLM.py:19-20
NewLLM == [conversation_history |-> <<>>,
           system_prompt |-> DefaultSystemPrompt]

\* A slip: the new prompt replaces element 0 and the turns are kept.
set_system_prompt_keeps_turns(l, prompt) ==
    [conversation_history |->
         IF l.conversation_history = <<>>
         THEN <<SystemMessage(prompt)>>
         ELSE [l.conversation_history EXCEPT ![1] = SystemMessage(prompt)],
     system_prompt |-> prompt]

\* LLM.py:22-26
set_system_prompt(l, prompt) ==
    [conversation_history |-> <<SystemMessage(prompt)>>,
     system_prompt |-> prompt]

\* A slip: insert(0, ...) for append(...).
add_message_prepends(l, role, content) ==
    [l EXCEPT !.conversation_history = <<Message(role, content)>> \o @]

\* LLM.py:28-30: no check of the role, no check of the head of the list.
add_message(l, role, content) ==
    [l EXCEPT !.conversation_history = Append(@, Message(role, content))]

\* A slip: the history is reset on every call.
ensure_system_always(l) ==
    [l EXCEPT !.conversation_history = <<SystemMessage(l.system_prompt)>>]

\* LLM.py:35-36: a history that is empty or does not start with a system
\* message is replaced by the single system message.
ensure_system(l) ==
    IF l.conversation_history = <<>>
       \/ l.conversation_history[1].role # "system"
    THEN [l EXCEPT !.conversation_history = <<SystemMessage(l.system_prompt)>>]
    ELSE l

\* An outcome of client.chat.completions.create (LLM.py:42-49).
Outcomes == [ok : {TRUE}, text : Replies] \cup [ok : {FALSE}, text : Errors]

\* LLM.py:32-56.  The result: the fields after the call, the value
\* returned, and the messages handed to the remote service.
generate_response(l, user_input, outcome) ==
    LET asked == add_message(ensure_system(l), "user", user_input)
    IN  IF outcome.ok
        THEN [llm |-> add_message(asked, "assistant", outcome.text),
              ret |-> outcome.text,
              sent |-> asked.conversation_history]
        ELSE [llm |-> asked,
              ret |-> GenerateErrorPrefix \o outcome.text,
              sent |-> asked.conversation_history]

\* A slip: the history is reset to the prompt a new session starts with.
clear_history_default(l) ==
    [l EXCEPT !.conversation_history = <<SystemMessage(DefaultSystemPrompt)>>]

\* LLM.py:58-60
clear_history(l) ==
    [l EXCEPT !.conversation_history = <<SystemMessage(l.system_prompt)>>]

\* LLM.py:62-64
get_history(l) == l.conversation_history

(***************************************************************************)
(* AgentManager.  agents is the dict in insertion order.                   *)
(***************************************************************************)
\* LLM.py:70-75
NewAgents == << [name |-> "default",
                 system_prompt |-> DefaultAgentPrompt,
                 voice |-> "default"] >>

HasAgent(ags, name) == \E i \in 1..Len(ags) : ags[i].name = name

AgentOf(ags, name) == ags[CHOOSE i \in 1..Len(ags) : ags[i].name = name]

\* A slip: an unknown name falls back to the first registered agent.
set_agent_falls_back(l, ags, agent_name) ==
    IF HasAgent(ags, agent_name)
    THEN [llm |-> set_system_prompt(l, AgentOf(ags, agent_name).system_prompt),
          ret |-> TRUE]
    ELSE [llm |-> set_system_prompt(l, ags[1].system_prompt), ret |-> FALSE]

\* LLM.py:77-83
set_agent(l, ags, agent_name) ==
    IF HasAgent(ags, agent_name)
    THEN [llm |-> set_system_prompt(l, AgentOf(ags, agent_name).system_prompt),
          ret |-> TRUE]
    ELSE [llm |-> l, ret |-> FALSE]

\* LLM.py:85-87
list_agents(ags) == [i \in 1..Len(ags) |-> ags[i].name]

\* LLM.py:89-91
get_agent_info(ags, agent_name) ==
    IF HasAgent(ags, agent_name)
    THEN [system_prompt |-> AgentOf(ags, agent_name).system_prompt,
          voice |-> AgentOf(ags, agent_name).voice]
    ELSE None

(***************************************************************************)
(* ANT, the facade.                                                        *)
(***************************************************************************)
\* An outcome of self.asr(audio_path) (ANT.py:79).
AsrOutcomes == [ok : {TRUE}, text : UserInputs] \cup [ok : {FALSE}, text : Errors]

\* Outcomes of the tokenizer, model and file write of ANT.py:98-105.
TtsOutcomes == {"ok", "raised"}

NoCalls == [c \in {} |-> "ok"]

Called(c, ok) == [x \in {c} |-> IF ok THEN "ok" ELSE "raised"]

\* ANT.py:68-70 and ANT.py:110-112: both delegate to generate_response.
process_text(l, text, outcome) ==
    LET r == generate_response(l, text, outcome)
    IN  [llm |-> r.llm, ret |-> r.ret, sent |-> r.sent,
         calls |-> Called("remote", outcome.ok)]

\* ANT.py:92-108: returns nothing, swallows every exception.
synthesize_speech(tts, ttsOutcome) ==
    IF ~tts THEN NoCalls ELSE Called("tts", ttsOutcome = "ok")

\* A slip: the availability of the ASR adapter is not looked at.
process_audio_unchecked(l, asr, tts, asrOutcome, outcome, ttsOutcome) ==
    IF ~asrOutcome.ok
    THEN [llm |-> l, ret |-> AudioErrorPrefix \o asrOutcome.text,
          sent |-> <<>>, calls |-> Called("asr", FALSE)]
    ELSE LET r == process_text(l, asrOutcome.text, outcome)
         IN  [r EXCEPT !.calls = Called("asr", TRUE) @@ r.calls
                                 @@ synthesize_speech(tts, ttsOutcome)]

\* ANT.py:72-90
process_audio(l, asr, tts, asrOutcome, outcome, ttsOutcome) ==
    IF ~asr
    THEN [llm |-> l, ret |-> AsrUnavailable, sent |-> <<>>, calls |-> NoCalls]
    ELSE IF ~asrOutcome.ok
    THEN [llm |-> l, ret |-> AudioErrorPrefix \o asrOutcome.text,
          sent |-> <<>>, calls |-> Called("asr", FALSE)]
    ELSE LET r == process_text(l, asrOutcome.text, outcome)
         IN  [r EXCEPT !.calls = Called("asr", TRUE) @@ r.calls
                                 @@ synthesize_speech(tts, ttsOutcome)]

(***************************************************************************)
(* The record of the run that the properties read: which agent was         *)
(* activated last, and the successful turns since the history was last     *)
(* reset.                                                                  *)
(***************************************************************************)
FreshStreak == [valid |-> TRUE, turns |-> <<>>]

BrokenStreak == [valid |-> FALSE, turns |-> <<>>]

StreakAfterTurn(text, outcome) ==
    IF streak.valid /\ outcome.ok
    THEN [streak EXCEPT !.turns = Append(@, <<text, outcome.text>>)]
    ELSE BrokenStreak

\* The fields of the session: those of LLMInterface, AgentManager and ANT.
fields == [conversation_history |-> conversation_history,
           system_prompt |-> system_prompt,
           agents |-> agents,
           asr_available |-> asr_available,
           tts_available |-> tts_available]

\* The part every action shares: the LLMInterface fields after the call and
\* what the caller and the collaborators saw of it.
Call(name, arg, l, r, s, c) ==
    /\ conversation_history' = l.conversation_history
    /\ system_prompt' = l.system_prompt
    /\ op' = [name |-> name, arg |-> arg]
    /\ ret' = r
    /\ sent' = s
    /\ calls' = c
    /\ before' = fields
    /\ UNCHANGED <<agents, asr_available, tts_available>>

\* ANT.__init__ (ANT.py:28-58) over LLMInterface.__init__ and
\* AgentManager.__init__: each adapter is available or not.
Init ==
    /\ conversation_history = NewLLM.conversation_history
    /\ system_prompt = NewLLM.system_prompt
    /\ agents = NewAgents
    /\ asr_available \in BOOLEAN
    /\ tts_available \in BOOLEAN
    /\ op = [name |-> "__init__", arg |-> <<>>]
    /\ ret = None
    /\ sent = <<>>
    /\ calls = NoCalls
    /\ before = fields
    /\ prompted = FALSE
    /\ active = None
    /\ streak = FreshStreak

(***************************************************************************)
(* LLMInterface's methods, called directly.                                *)
(***************************************************************************)
SetSystemPrompt ==
    \E p \in Prompts :
        /\ Call("set_system_prompt", <<p>>, set_system_prompt(llm, p),
                None, <<>>, NoCalls)
        /\ prompted' = TRUE
        /\ streak' = FreshStreak
        /\ UNCHANGED active

AddMessage ==
    \E role \in Roles, content \in Contents :
        /\ Len(conversation_history) < MaxDirect
        /\ Call("add_message", <<role, content>>,
                add_message(llm, role, content), None, <<>>, NoCalls)
        /\ streak' = BrokenStreak
        /\ UNCHANGED <<prompted, active>>

\* A turn through name: generate_response itself, or a facade method that
\* only delegates to it.
Turn(name) ==
    \E text \in UserInputs, outcome \in Outcomes :
        LET r == process_text(llm, text, outcome)
        IN  /\ Len(conversation_history) + 2 <= MaxHist
            /\ Call(name, <<text>>, r.llm, r.ret, r.sent, r.calls)
            /\ streak' = StreakAfterTurn(text, outcome)
            /\ UNCHANGED <<prompted, active>>

GenerateResponse == Turn("generate_response")

ClearHistory ==
    /\ Call("LLMInterface.clear_history", <<>>, clear_history(llm), None,
            <<>>, NoCalls)
    /\ streak' = FreshStreak
    /\ UNCHANGED <<prompted, active>>

GetHistory ==
    /\ Call("get_history", <<>>, llm, get_history(llm), <<>>, NoCalls)
    /\ UNCHANGED <<prompted, active, streak>>

(***************************************************************************)
(* AgentManager's methods and the facade's.                                *)
(***************************************************************************)
Activate(name) ==
    \E agent_name \in AgentNames :
        LET r == set_agent(llm, agents, agent_name)
        IN  /\ Call(name, <<agent_name>>, r.llm, r.ret, <<>>, NoCalls)
            /\ prompted' = (prompted \/ r.ret)
            /\ active' = IF r.ret THEN agent_name ELSE active
            /\ streak' = IF r.ret THEN FreshStreak ELSE streak

AgentManagerSetAgent == Activate("AgentManager.set_agent")

SetAgent == Activate("set_agent")

Listing(name) ==
    /\ Call(name, <<>>, llm, list_agents(agents), <<>>, NoCalls)
    /\ UNCHANGED <<prompted, active, streak>>

AgentManagerListAgents == Listing("AgentManager.list_agents")

ListAgents == Listing("list_agents")

GetAgentInfo ==
    \E agent_name \in AgentNames :
        /\ Call("get_agent_info", <<agent_name>>, llm,
                get_agent_info(agents, agent_name), <<>>, NoCalls)
        /\ UNCHANGED <<prompted, active, streak>>

ProcessText == Turn("process_text")

Chat == Turn("chat")

ProcessAudio ==
    \E path \in AudioPaths, asrOutcome \in AsrOutcomes, outcome \in Outcomes,
       ttsOutcome \in TtsOutcomes :
        LET r == process_audio(llm, asr_available, tts_available, asrOutcome,
                               outcome, ttsOutcome)
        IN  /\ "remote" \in DOMAIN r.calls
                   => Len(conversation_history) + 2 <= MaxHist
            /\ Call("process_audio", <<path>>, r.llm, r.ret, r.sent, r.calls)
            /\ streak' = IF "remote" \in DOMAIN r.calls
                         THEN StreakAfterTurn(asrOutcome.text, outcome)
                         ELSE streak
            /\ UNCHANGED <<prompted, active>>

SynthesizeSpeech ==
    \E text \in Replies, ttsOutcome \in TtsOutcomes :
        /\ Call("synthesize_speech", <<text, "output.wav">>, llm, None, <<>>,
                synthesize_speech(tts_available, ttsOutcome))
        /\ UNCHANGED <<prompted, active, streak>>

\* ANT.py:114-117
AntClearHistory ==
    /\ Call("clear_history", <<>>, clear_history(llm), None, <<>>, NoCalls)
    /\ streak' = FreshStreak
    /\ UNCHANGED <<prompted, active>>

(***************************************************************************)
(* Specifications.  Spec: every public method of the three classes.        *)
(* FacadeSpec: the methods of ANT only.  ChatSpec: chat, process_text,     *)
(* set_agent and clear_history only.                                       *)
(***************************************************************************)
ChatNext ==
    \/ Chat
    \/ ProcessText
    \/ SetAgent
    \/ AntClearHistory

FacadeNext ==
    \/ ChatNext
    \/ ListAgents
    \/ ProcessAudio
    \/ SynthesizeSpeech

Next ==
    \/ FacadeNext
    \/ SetSystemPrompt
    \/ AddMessage
    \/ GenerateResponse
    \/ ClearHistory
    \/ GetHistory
    \/ AgentManagerSetAgent
    \/ AgentManagerListAgents
    \/ GetAgentInfo

Spec == Init /\ [][Next]_vars

FacadeSpec == Init /\ [][FacadeNext]_vars

ChatSpec == Init /\ [][ChatNext]_vars

(***************************************************************************)
(* Properties.                                                             *)
(***************************************************************************)
\* The calls that are one turn of generate_response and nothing else.
ChatOps == {"chat", "process_text", "generate_response"}

SetAgentOps == {"set_agent", "AgentManager.set_agent"}

ReachedRemote == "remote" \in DOMAIN calls

RemoteRaised == ReachedRemote /\ calls["remote"] = "raised"

HeadIsSystem(h) == h # <<>> /\ h[1].role = "system"

\* C1: when the remote completion call raises during chat(x) /
\* generate_response(x), the call returns a string starting with "Error
\* generating response" and the history is the one before the call followed
\* by the user message x and an assistant message carrying that error text.
\* Stated for the calls made on a history that starts with its system
\* message, where nothing but the two messages can be added.
C1_ErrorReplyRecorded ==
    (/\ op.name \in ChatOps
     /\ RemoteRaised
     /\ HeadIsSystem(before.conversation_history)) =>
        /\ ret \in {GenerateErrorPrefix \o e : e \in Errors}
        /\ conversation_history =
               before.conversation_history
                   \o <<Message("user", op.arg[1]), Message("assistant", ret)>>

\* C2: once set_system_prompt has been called, the history is non-empty and
\* its element 0 has role system, whatever add_message, generate_response,
\* clear_history and set_agent calls follow.
C2_SystemHeadAfterPrompt == prompted => HeadIsSystem(conversation_history)

C2_Witness ==
    /\ prompted
    /\ op.name = "add_message"
    /\ Len(conversation_history) >= 3
    /\ \E i \in 2..Len(conversation_history) :
           conversation_history[i].role = "assistant"

\* C3: add_message(role, content) with role system is rejected and leaves
\* the history unchanged, so that no element of the history other than
\* element 0 ever has role system.
C3_SystemRoleRejected ==
    /\ (op.name = "add_message" /\ op.arg[1] = "system") =>
           conversation_history = before.conversation_history
    /\ \A i \in 2..Len(conversation_history) :
           conversation_history[i].role # "system"

\* C4: set_agent(name) with an unregistered name returns False and leaves
\* the history, the configured system prompt and list_agents() as they were.
C4_UnknownAgentChangesNothing ==
    (op.name \in SetAgentOps /\ ~HasAgent(before.agents, op.arg[1])) =>
        /\ ret = FALSE
        /\ conversation_history = before.conversation_history
        /\ system_prompt = before.system_prompt
        /\ list_agents(agents) = list_agents(before.agents)

C4_Witness ==
    /\ op = [name |-> "set_agent", arg |-> <<"friend">>]
    /\ ret = FALSE
    /\ Len(conversation_history) >= 3
    /\ system_prompt = CustomPrompt

\* C5: set_agent(name) with a registered name returns True and leaves a
\* history of exactly one element, the system message carrying that agent's
\* system_prompt, which also becomes the configured system prompt.
C5_KnownAgentResets ==
    (op.name \in SetAgentOps /\ HasAgent(before.agents, op.arg[1])) =>
        LET prompt == AgentOf(before.agents, op.arg[1]).system_prompt
        IN  /\ ret = TRUE
            /\ conversation_history = <<SystemMessage(prompt)>>
            /\ system_prompt = prompt

C5_Witness ==
    /\ op = [name |-> "set_agent", arg |-> <<"default">>]
    /\ ret = TRUE
    /\ Len(before.conversation_history) >= 4
    /\ before.system_prompt # system_prompt

\* The prompt of the agent most recently activated, or the prompt a new
\* session is configured with.
ActivePrompt ==
    IF active = None
    THEN DefaultSystemPrompt
    ELSE AgentOf(agents, active).system_prompt

\* C6: clear_history() after any number of chat turns leaves a history of
\* length 1 whose system message carries the prompt of the agent most
\* recently activated (the default prompt if none was); the configured
\* system prompt and the agent registry are as before the call.
C6_ClearKeepsPersona ==
    op.name = "clear_history" =>
        /\ conversation_history = <<SystemMessage(ActivePrompt)>>
        /\ system_prompt = before.system_prompt
        /\ agents = before.agents

C6_Witness ==
    /\ op.name = "clear_history"
    /\ active = "default"
    /\ Len(before.conversation_history) = 5

\* The history k successful turns leave: the system message, then for each
\* turn its user message and the assistant's reply.
HistoryOf(prompt, turns) ==
    [i \in 1..(1 + 2 * Len(turns)) |->
        IF i = 1 THEN SystemMessage(prompt)
        ELSE IF i % 2 = 0 THEN Message("user", turns[i \div 2][1])
        ELSE Message("assistant", turns[(i - 1) \div 2][2])]

\* C7: from a fresh session or a just-reset history, k consecutive turns
\* whose remote call succeeds leave the history of length 1 + 2k made of the
\* system message and the k (user, assistant) pairs in order; the call
\* returns the reply it appended, and the remote service was sent the whole
\* history ending with that call's user message.
C7_SuccessfulTurns ==
    (streak.valid /\ streak.turns # <<>>) =>
        LET k == Len(streak.turns)
        IN  /\ conversation_history = HistoryOf(system_prompt, streak.turns)
            /\ Len(conversation_history) = 1 + 2 * k
            /\ ReachedRemote =>
                   /\ ret = streak.turns[k][2]
                   /\ sent = SubSeq(conversation_history, 1, 2 * k)
                   /\ sent[2 * k] = Message("user", streak.turns[k][1])
            /\ op.name \in ChatOps => op.arg = <<streak.turns[k][1]>>

C7_Witness ==
    /\ streak.valid
    /\ Len(streak.turns) = 2
    /\ op.name = "chat"
    /\ Len(conversation_history) = 5
    /\ streak.turns[1][1] # streak.turns[2][1]

\* What the history is once the configured system prompt has been inserted
\* at position 0 of a history that does not start with a system message.
Healed(b) ==
    IF HeadIsSystem(b.conversation_history)
    THEN b.conversation_history
    ELSE <<SystemMessage(b.system_prompt)>> \o b.conversation_history

\* C8: before any append (add_message directly, or the user append inside
\* generate_response) a history that is empty or does not start with a
\* system message first gets the configured system prompt inserted at
\* position 0, the messages already there kept after it; hence after every
\* append element 0 is a system message carrying the configured prompt.
C8_SelfHealBeforeAppend ==
    /\ (op.name = "add_message" /\ op.arg[1] # "system") =>
           /\ conversation_history =
                  Append(Healed(before), Message(op.arg[1], op.arg[2]))
           /\ conversation_history[1] = SystemMessage(system_prompt)
    /\ op.name \in ChatOps =>
           /\ sent = Append(Healed(before), Message("user", op.arg[1]))
           /\ conversation_history[1] = SystemMessage(system_prompt)

\* C9: process_audio(path) with the ASR adapter unavailable returns "ASR
\* module not available", calls neither the remote completion service nor
\* the TTS adapter, and leaves the history unchanged; no operation changes
\* the availability flags set at construction.
C9_AudioWithoutAsr ==
    /\ (op.name = "process_audio" /\ ~asr_available) =>
           /\ ret = AsrUnavailable
           /\ DOMAIN calls = {}
           /\ sent = <<>>
           /\ conversation_history = before.conversation_history
    /\ asr_available = before.asr_available
    /\ tts_available = before.tts_available

C9_Witness ==
    /\ op.name = "process_audio"
    /\ ~asr_available
    /\ tts_available
    /\ ret = AsrUnavailable
    /\ Len(conversation_history) >= 3

\* C10: through chat, process_text, set_agent and clear_history alone, the
\* roles after element 0 strictly alternate user, assistant, user, ...: no
\* two user messages are adjacent, and once a chat call has returned the
\* history does not end with an unanswered user message.
C10_RolesAlternate ==
    /\ \A i \in 2..Len(conversation_history) :
           conversation_history[i].role =
               IF i % 2 = 0 THEN "user" ELSE "assistant"
    /\ op.name \in ChatOps =>
           conversation_history[Len(conversation_history)].role = "assistant"

====
